---- MODULE Spec2Model ----
(***************************************************************************)
(* A model of the example notebooks of elasticsearch-labs:                 *)
(*   - the Phi-3 relevance judge (Phi3Evaluator, POOL, generate_prompts,   *)
(*     generate_data, get_llm_evaluator and the run loop), and             *)
(*   - the two RAG playground scripts (Bedrock/Anthropic and OpenAI).      *)
(* Strings the code inspects character by character (model outputs,        *)
(* response types, labels) are sequences of one-character strings.         *)
(* Agreement scores are kept in hundredths (0.67 is 67, -1.0 is -100).     *)
(* Temperatures are kept in tenths (0.5 is 5).                             *)
(***************************************************************************)
EXTENDS Integers, Sequences, FiniteSets, TLC

VARIABLES
    script,          \* which notebook runs: "judge", "bedrock" or "openai"
    task_type,       \* TASK_TYPE
    temperature,     \* TEMPERATURE, in tenths
    iterations,      \* ITERATIONS
    data,            \* SAMPLE_DATA: a sequence of records (functions key -> value)
    vocab,           \* the texts the text-generation pipeline may produce
    direct_types,    \* response_types given to Phi3Evaluator when built directly
    evaluator,       \* llm_evaluator: the Phi3Evaluator instance's fields
    model_loaded,    \* whether from_pretrained / pipeline(...) have run
    pc,              \* position of the run
    prompts,         \* inputs_for_pipeline materialised so far
    gen_args,        \* the keyword arguments of the pipeline call
    pipeline_calls,  \* number of calls of self.pipeline
    pipe_out,        \* what the pipeline returned: per prompt, its generated texts
    yielded,         \* the tuples __call__ has yielded so far
    data_pos,        \* number of lines generate_data (gen_data()) has yielded
    outputs,         \* the list `outputs` of the run loop
    history,         \* the finished calls of llm_evaluator, oldest first
    error,           \* the exception that ended the run, or "none"
    index_source_fields, \* the RAG scripts' index_source_fields
    results,         \* elasticsearch_results
    context_prompt,  \* the prompt built by create_prompt / create_openai_prompt
    completion,      \* the completion returned by the chat-completion call
    es_calls,        \* number of es_client.search calls
    completion_calls,\* number of chat-completion calls
    sent_prompt,     \* the prompt sent with the chat-completion request
    printed          \* what print(...) wrote, a sequence of lines' pieces

judge_vars == <<task_type, temperature, iterations, data, vocab, direct_types,
                evaluator, model_loaded, prompts, gen_args, pipeline_calls,
                pipe_out, yielded, data_pos, outputs, history>>
rag_vars == <<index_source_fields, results, context_prompt, completion,
              es_calls, completion_calls, sent_prompt, printed>>
vars == <<script, pc, error, judge_vars, rag_vars>>

----------------------------------------------------------------------------
(* Bounds of the model *)

MaxRecords == 2        \* records in SAMPLE_DATA (run-loop specification)
MaxRunIterations == 2  \* ITERATIONS in the run-loop specification
MaxIterations == 3     \* ITERATIONS in the single-prompt specification
MaxHits == 2           \* hits returned by the search
MaxCalls == 3          \* calls of one evaluator (repeated-calls specification)

----------------------------------------------------------------------------
(* Characters and strings *)

UpperChars == <<"A","B","C","D","E","F","G","H","I","J","K","L","M",
                "N","O","P","Q","R","S","T","U","V","W","X","Y","Z">>
LowerChars == <<"a","b","c","d","e","f","g","h","i","j","k","l","m",
                "n","o","p","q","r","s","t","u","v","w","x","y","z">>

LowerOf(c) ==
    IF \E i \in 1..Len(UpperChars) : UpperChars[i] = c
    THEN LowerChars[CHOOSE i \in 1..Len(UpperChars) : UpperChars[i] = c]
    ELSE c

UpperOf(c) ==
    IF \E i \in 1..Len(LowerChars) : LowerChars[i] = c
    THEN UpperChars[CHOOSE i \in 1..Len(LowerChars) : LowerChars[i] = c]
    ELSE c

\* the characters of the model's strings
Alphabet ==
    {UpperChars[i] : i \in 1..Len(UpperChars)}
    \cup {LowerChars[i] : i \in 1..Len(LowerChars)}
    \cup {" ", ":", ",", "\"", "|", "(", ")", ".", "?", "*", "+"}

FoldTable == [c \in Alphabet |-> LowerOf(c)]
UpTable == [c \in Alphabet |-> UpperOf(c)]

\* re.IGNORECASE compares characters by their case-folded form
FoldChar(c) == FoldTable[c]

UpChar(c) == UpTable[c]

FoldStr(s) == [i \in 1..Len(s) |-> FoldChar(s[i])]
UpStr(s) == [i \in 1..Len(s) |-> UpChar(s[i])]

sRelevant == <<"R","e","l","e","v","a","n","t">>
sNotRelevant == <<"N","o","t"," ">> \o sRelevant
sAnswerRelevant == <<"A","n","s","w","e","r",":"," ","\"">> \o sRelevant \o <<"\"">>
sAnswerNotRelevant ==
    <<"A","n","s","w","e","r",":"," ","\"">> \o sNotRelevant \o <<"\"">>
sUnparsable == <<"U","n","p","a","r","s","a","b","l","e">>
sMaybe == <<"M","a","y","b","e">>
sYes == <<"Y","e","s">>

----------------------------------------------------------------------------
(* Phi3Evaluator *)

RECURSIVE Join(_, _)
\* sep.join(parts), for strings that are character sequences
Join(parts, sep) ==
    IF parts = <<>> THEN <<>>
    ELSE IF Len(parts) = 1 THEN parts[1]
    ELSE parts[1] \o <<sep>> \o Join(Tail(parts), sep)

\* self.regex_str: "(" + "|".join(response_types) + ")", or None (here the
\* empty string, which `not self.regex_str` treats the same way)
RegexStr(response_types) ==
    IF response_types # <<>>
    THEN <<"(">> \o Join(response_types, "|") \o <<")">>
    ELSE <<>>

Phi3Evaluator(response_types, iters, temp) ==
    [built |-> TRUE,
     regex_str |-> RegexStr(response_types),
     _temperature |-> temp,
     _iterations |-> iters]

NoEvaluator ==
    [built |-> FALSE, regex_str |-> <<>>, _temperature |-> 0, _iterations |-> 0]

\* as GetGenerationArgs, had greedy decoding kept num_return_sequences at
\* the number of iterations
GetGenerationArgsIterationsAlways(ev) ==
    IF ev._temperature > 0
    THEN [return_full_text |-> FALSE,
          temperature |-> ev._temperature,
          do_sample |-> TRUE,
          num_return_sequences |-> ev._iterations,
          num_beams |-> 2 * ev._iterations]
    ELSE [return_full_text |-> FALSE,
          do_sample |-> FALSE,
          num_return_sequences |-> ev._iterations]

GetGenerationArgs(ev) ==
    IF ev._temperature > 0
    THEN [return_full_text |-> FALSE,
          temperature |-> ev._temperature,
          do_sample |-> TRUE,
          num_return_sequences |-> ev._iterations,
          num_beams |-> 2 * ev._iterations]
    ELSE [return_full_text |-> FALSE,
          do_sample |-> FALSE,
          num_return_sequences |-> 1]

\* gen_args.update({"batch_size": ..., "max_new_tokens": ...})
UpdateGenArgs(args, batch_size, max_output_tokens) ==
    ("batch_size" :> batch_size) @@ ("max_new_tokens" :> max_output_tokens) @@ args

----------------------------------------------------------------------------
(* POOL, the prompts and the data *)

BATCH_SIZE == 2

POOL ==
    [qa_pointwise |->
        [prompt_inputs |-> <<"query_text", "retrieved_text">>,
         prompt_template |-> "QA_POINTWISE_RELEVANCE_PROMPT_TEMPLATE",
         response_types |-> <<sRelevant, sNotRelevant>>,
         metadata |-> <<"qid", "retrieved_doc_id", "human_judgment">>,
         max_output_tokens |-> 4],
     qa_pairwise |->
        [prompt_inputs |-> <<"query_text", "positive_text", "retrieved_text">>,
         prompt_template |-> "QA_PAIRWISE_RELEVANCE_PROMPT_TEMPLATE",
         response_types |-> <<sRelevant, sNotRelevant>>,
         metadata |-> <<"qid", "retrieved_doc_id", "human_judgment">>,
         max_output_tokens |-> 4],
     chain_of_thought |->
        [prompt_inputs |-> <<"query_text", "retrieved_text">>,
         prompt_template |-> "CHAIN_OF_THOUGHT_PROMPT_TEMPLATE",
         response_types |-> <<sAnswerRelevant, sAnswerNotRelevant>>,
         metadata |-> <<"qid", "retrieved_doc_id", "human_judgment">>,
         max_output_tokens |-> 250]]

Range(seq) == {seq[i] : i \in 1..Len(seq)}

\* necessary_keys = POOL[task_type]["prompt_inputs"] + POOL[task_type]["metadata"]
NecessaryKeys(task) == POOL[task].prompt_inputs \o POOL[task].metadata

\* as HasNecessaryKeys, had the assertion looked at the prompt inputs only
HasPromptInputKeys(line, task) ==
    \A i \in 1..Len(POOL[task].prompt_inputs) :
        POOL[task].prompt_inputs[i] \in DOMAIN line

\* all(key in line for key in necessary_keys)
HasNecessaryKeys(line, task) ==
    \A i \in 1..Len(NecessaryKeys(task)) : NecessaryKeys(task)[i] \in DOMAIN line

\* prompt_template.format(**prompt_inputs): the template with the record's
\* prompt inputs put in its fields
FormatPrompt(line, task) ==
    [template |-> POOL[task].prompt_template,
     fields |-> [k \in Range(POOL[task].prompt_inputs) |-> line[k]]]

\* [{"role": "user", "content": prompt}]
PipelineInput(prompt) == <<[role |-> "user", content |-> prompt]>>

\* as JsonOut, had the row kept the metadata fields only
JsonOutMetadataOnly(data_tuple, task, tuple) ==
    ("LLM_raw_response" :> tuple.raw)
    @@ ("LLM_mapped_response" :> tuple.label)
    @@ ("LLM_agreement" :> tuple.agreement)
    @@ [key \in Range(POOL[task].metadata) |-> data_tuple[key]]

\* json_out of the run loop
JsonOut(data_tuple, task, tuple) ==
    ("LLM_raw_response" :> tuple.raw)
    @@ ("LLM_mapped_response" :> tuple.label)
    @@ ("LLM_agreement" :> tuple.agreement)
    @@ [key \in Range(POOL[task].metadata \o POOL[task].prompt_inputs)
            |-> data_tuple[key]]

(* The inputs of a run *)

Keys == {"qid", "query_text", "positive_text", "retrieved_text",
         "retrieved_doc_id", "human_judgment"}

\* the i-th sample record, every field present
FullRecord(i) ==
    [k \in Keys |->
        IF k = "human_judgment"
        THEN (IF i % 2 = 1 THEN sRelevant ELSE sNotRelevant)
        ELSE <<k, i>>]

Restrict(f, S) == [k \in S |-> f[k]]

\* the fields a record may lack
DropSets == {{}, {"positive_text"}, {"human_judgment"}, {"query_text"}}

RecordsAt(i) == {Restrict(FullRecord(i), Keys \ d) : d \in DropSets}

DataSets(n) ==
    UNION {{d \in [1..m -> UNION {RecordsAt(i) : i \in 1..m}] :
                \A i \in 1..m : d[i] \in RecordsAt(i)} : m \in 0..n}

TaskTypes == {"qa_pointwise", "qa_pairwise", "chain_of_thought", "pointwise"}
Temperatures == {0, 5}

\* model outputs of the single-prompt specification
Texts ==
    {sRelevant,
     sNotRelevant,
     FoldStr(sRelevant),
     UpStr(sNotRelevant),
     <<"I", "r">> \o FoldStr(sRelevant),
     sRelevant \o <<",", " ">> \o sNotRelevant,
     sAnswerRelevant,
     sAnswerNotRelevant,
     sUnparsable,
     sMaybe,
     <<>>}

\* model outputs of the run-loop specification
RunTexts == {sRelevant, sAnswerNotRelevant}

\* response_types of an evaluator built without get_llm_evaluator
NotDirect == [direct |-> FALSE, types |-> <<>>]
DirectTypes ==
    {[direct |-> TRUE, types |-> <<>>],
     [direct |-> TRUE, types |-> <<sNotRelevant, sRelevant, sYes>>]}

\* response types that hold characters of the pattern syntax
sYesDot == sYes \o <<".">>
sNoMark == <<"N", "o", "?">>
sAPlusB == <<"A", "+", "B">>
sOkStar == <<"O", "k", "*">>
MetaDirectTypes ==
    {[direct |-> TRUE, types |-> <<sYesDot, sNoMark>>],
     [direct |-> TRUE, types |-> <<sRelevant, sAPlusB>>],
     [direct |-> TRUE, types |-> <<sYesDot, sOkStar>>]}

\* model outputs of the response-types specification
RegexTexts ==
    {sYesDot,
     sYes \o <<",">>,
     UpStr(sYes),
     sNoMark,
     <<"N">>,
     sAPlusB,
     <<"a", "a", "b">>,
     FoldStr(sRelevant),
     sMaybe}

\* what the pipeline may return for one prompt: a list of
\* num_return_sequences generations, or a single dict when there is one
PipelineOutputs(n, texts) ==
    {[kind |-> "list", items |-> t] : t \in [1..n -> texts]}
    \cup (IF n = 1 THEN {[kind |-> "dict", items |-> <<t>>] : t \in texts} ELSE {})

----------------------------------------------------------------------------
(* Phi3Evaluator: the model outputs parsed and the majority vote *)

RECURSIVE SplitBar(_, _)
\* the alternatives of a pattern body: the text between top-level "|"
SplitBar(s, cur) ==
    IF s = <<>> THEN <<cur>>
    ELSE IF Head(s) = "|" THEN <<cur>> \o SplitBar(Tail(s), <<>>)
    ELSE SplitBar(Tail(s), Append(cur, Head(s)))

\* How `re` reads the pattern "(a|b|...)": a group of alternatives, the text
\* between the "|".  The response types are joined into the pattern as they
\* are, not escaped, so their characters are read as pattern syntax.
Alternatives(regex_str) == SplitBar(SubSeq(regex_str, 2, Len(regex_str) - 1), <<>>)

\* The pattern syntax read here: a character standing for itself, "." for
\* any character but a newline, and "?", "*", "+" after either, repeating it
\* greedily.  Groups, classes, escapes, anchors, braces and a quantifier
\* after a quantifier inside a response type are not read, nor is a response
\* type that is no valid pattern (which makes re.search raise); the response
\* types of the model hold none.
Quantifiers == {"?", "*", "+"}

\* the pattern character p matches the character c, letter case ignored
\* (re.IGNORECASE)
CharMatches(p, c) == IF p = "." THEN c # "\n" ELSE FoldChar(c) = FoldChar(p)

\* how often the pattern character at k of alt is to be matched: the
\* quantifier after it, "1" (once) if there is none
QuantifierAt(alt, k) ==
    IF k < Len(alt) /\ alt[k + 1] \in Quantifiers THEN alt[k + 1] ELSE "1"

\* the position right after the match of alt at pos of text, 0 if alt does
\* not match there.  from[k, again, p]: the same for alt from its character
\* k on at p, the first end the backtracking matcher reaches: a repeated
\* character is first matched once more, then left.  again: the character
\* at k was matched already.
MatchEnd(alt, text, pos) ==
    LET from[k \in 1..(Len(alt) + 1), again \in BOOLEAN, p \in 1..(Len(text) + 1)] ==
            IF k > Len(alt) THEN p
            ELSE LET q == QuantifierAt(alt, k)
                     \* the character at k left behind, where it may be
                     left == IF q = "1" \/ (q = "+" /\ ~again) THEN 0
                             ELSE from[k + 2, FALSE, p]
                 IN  IF p <= Len(text) /\ CharMatches(alt[k], text[p])
                     THEN IF q = "1" THEN from[k + 1, FALSE, p + 1]
                          ELSE LET more == IF q = "?" THEN from[k + 2, FALSE, p + 1]
                                           ELSE from[k, TRUE, p + 1]
                               IN  IF more # 0 THEN more ELSE left
                     ELSE left
    IN  from[1, FALSE, pos]

\* as ReSearch, had the code used re.match: only a match at the start counts
ReMatchAtStart(regex_str, text) ==
    LET alts == Alternatives(regex_str)
        Hits == {a \in 1..Len(alts) : MatchEnd(alts[a], text, 1) # 0}
    IN  IF Hits = {} THEN [matched |-> FALSE, group |-> <<>>]
        ELSE LET a == CHOOSE x \in Hits : \A y \in Hits : x <= y
             IN  [matched |-> TRUE,
                  group |-> SubSeq(text, 1, MatchEnd(alts[a], text, 1) - 1)]

\* as ReSearch, had the order of the alternatives come before the position:
\* the first alternative that matches anywhere, at its leftmost match
ReSearchFirstAlternative(regex_str, text) ==
    LET alts == Alternatives(regex_str)
        At(a) == {pos \in 1..(Len(text) + 1) : MatchEnd(alts[a], text, pos) # 0}
        Found == {a \in 1..Len(alts) : At(a) # {}}
    IN  IF Found = {} THEN [matched |-> FALSE, group |-> <<>>]
        ELSE LET a == CHOOSE x \in Found : \A y \in Found : x <= y
                 pos == CHOOSE p \in At(a) : \A q \in At(a) : p <= q
             IN  [matched |-> TRUE,
                  group |-> SubSeq(text, pos, MatchEnd(alts[a], text, pos) - 1)]

\* re.search(regex_str, text, re.IGNORECASE): the leftmost position where an
\* alternative matches and, there, the first alternative that matches;
\* group() is the text it matched
ReSearch(regex_str, text) ==
    LET alts == Alternatives(regex_str)
        Hits(pos) == {a \in 1..Len(alts) : MatchEnd(alts[a], text, pos) # 0}
        Where == {pos \in 1..(Len(text) + 1) : Hits(pos) # {}}
    IN  IF Where = {} THEN [matched |-> FALSE, group |-> <<>>]
        ELSE LET pos == CHOOSE p \in Where : \A q \in Where : p <= q
                 a == CHOOSE x \in Hits(pos) : \A y \in Hits(pos) : x <= y
             IN  [matched |-> TRUE,
                  group |-> SubSeq(text, pos, MatchEnd(alts[a], text, pos) - 1)]

\* the patterns and the model outputs of the specifications
SearchPatterns ==
    {RegexStr(POOL[task].response_types) : task \in DOMAIN POOL}
    \cup {RegexStr(d.types) : d \in DirectTypes \cup MetaDirectTypes}
SearchTexts == Texts \cup RunTexts \cup RegexTexts

\* ReSearch for the patterns and the model outputs of the specifications,
\* computed once
SearchTable ==
    [regex_str \in SearchPatterns |->
        [text \in SearchTexts |-> ReSearch(regex_str, text)]]

\* ReSearch(regex_str, text), read from SearchTable where it holds it
Searched(regex_str, text) ==
    IF regex_str \in SearchPatterns /\ text \in SearchTexts
    THEN SearchTable[regex_str][text]
    ELSE ReSearch(regex_str, text)

PostprocessOutput(regex_str, llm_out) ==
    IF regex_str = <<>> THEN llm_out
    ELSE LET re_search == Searched(regex_str, llm_out)
         IN  IF re_search.matched THEN re_search.group ELSE sUnparsable

CountOf(seq, x) == Cardinality({i \in 1..Len(seq) : seq[i] = x})

\* as MostCommon1, had the code taken the first label seen as the winner
FirstSeen1(seq) == <<seq[1], CountOf(seq, seq[1])>>

\* as MostCommon1, had a tie gone to the tied element that occurs last
MostCommonLatest(seq) ==
    LET i == CHOOSE k \in 1..Len(seq) :
                 /\ \A j \in 1..Len(seq) : CountOf(seq, seq[j]) <= CountOf(seq, seq[k])
                 /\ \A j \in (k + 1)..Len(seq) :
                       seq[j] = seq[k] \/ CountOf(seq, seq[j]) < CountOf(seq, seq[k])
    IN  <<seq[i], CountOf(seq, seq[i])>>

\* Counter(seq).most_common(1)[0] for a non-empty seq: the element with the
\* highest count; among equals, the one inserted first (heapq.nlargest(1, ...)
\* is max(), which keeps the first maximal item in the Counter's order)
MostCommon1(seq) ==
    LET i == CHOOSE k \in 1..Len(seq) :
                 /\ \A j \in 1..Len(seq) : CountOf(seq, seq[j]) <= CountOf(seq, seq[k])
                 /\ \A j \in 1..(k - 1) : CountOf(seq, seq[j]) < CountOf(seq, seq[k])
    IN  <<seq[i], CountOf(seq, seq[i])>>

\* the significand of a Python float (an IEEE 754 double) has 53 bits
FloatBits == 53

RECURSIVE FloatSide(_, _, _, _)
\* Where the float of a quotient lies against the quotient itself, for a
\* quotient in (0, 1): 1 above, -1 below, 0 when the quotient is a float.
\* The quotient is read bit by bit by long division: rem / den is the part
\* not yet read, seen the number of significant bits read (none before the
\* first 1), last the bit read last.  After FloatBits bits the rest decides,
\* as the division rounds to nearest, a tie to the even significand.
FloatSide(rem, den, seen, last) ==
    IF rem = 0 THEN 0
    ELSE IF seen = FloatBits
    THEN (IF 2 * rem > den THEN 1
          ELSE IF 2 * rem < den THEN -1
          ELSE IF last = 1 THEN 1 ELSE -1)
    ELSE LET bit == IF 2 * rem >= den THEN 1 ELSE 0
         IN  FloatSide(2 * rem - bit * den, den,
                       IF seen = 0 /\ bit = 0 THEN 0 ELSE seen + 1, bit)

\* round(num / den, 2) in hundredths, for 0 <= num <= den, den > 0.  num /
\* den is the float nearest to the quotient and round() gives the hundredth
\* nearest to that float.  When the quotient is exactly half way between two
\* hundredths (it is then (2q + 1) / 200) the side its float lies on decides
\* (1/40 is the float 0.025000000000000001..., rounded to 0.03); when that
\* float is the quotient itself (1/8), round() rounds half to even.
Round2(num, den) ==
    LET q == (100 * num) \div den
        r == (100 * num) % den
    IN  IF 2 * r < den THEN q
        ELSE IF 2 * r > den THEN q + 1
        ELSE LET side == FloatSide(2 * q + 1, 200, 0, 0)
             IN  IF side > 0 THEN q + 1
                 ELSE IF side < 0 THEN q
                 ELSE IF q % 2 = 0 THEN q ELSE q + 1

\* output = [output] if isinstance(output, dict) else output
AsList(output) == IF output.kind = "dict" THEN <<output.items[1]>> ELSE output.items

\* as CallYield, had the agreement been taken over all the generations, the
\* unparsable ones included
CallYieldOverAll(regex_str, output) ==
    LET llm_outputs == AsList(output)
        parsed_outputs ==
            [i \in 1..Len(llm_outputs) |-> PostprocessOutput(regex_str, llm_outputs[i])]
        clean_outputs == SelectSeq(parsed_outputs, LAMBDA o : o # sUnparsable)
    IN  IF clean_outputs # <<>>
        THEN LET winning_label == MostCommon1(clean_outputs)
             IN  [raw |-> llm_outputs,
                  parsed |-> parsed_outputs,
                  label |-> winning_label[1],
                  agreement |-> Round2(winning_label[2], Len(parsed_outputs))]
        ELSE [raw |-> llm_outputs,
              parsed |-> parsed_outputs,
              label |-> sUnparsable,
              agreement |-> -100]

\* the body of the for loop of __call__ for one pipeline output: the tuple it
\* yields (raw, label, agreement), with its local parsed_outputs
CallYield(regex_str, output) ==
    LET llm_outputs == AsList(output)
        parsed_outputs ==
            [i \in 1..Len(llm_outputs) |-> PostprocessOutput(regex_str, llm_outputs[i])]
        clean_outputs == SelectSeq(parsed_outputs, LAMBDA o : o # sUnparsable)
    IN  IF clean_outputs # <<>>
        THEN LET winning_label == MostCommon1(clean_outputs)
             IN  [raw |-> llm_outputs,
                  parsed |-> parsed_outputs,
                  label |-> winning_label[1],
                  agreement |-> Round2(winning_label[2], Len(clean_outputs))]
        ELSE [raw |-> llm_outputs,
              parsed |-> parsed_outputs,
              label |-> sUnparsable,
              agreement |-> -100]

----------------------------------------------------------------------------
(* The RAG playground scripts.  Their texts are sequences of pieces. *)

question == "what is this?"

\* f"{hit['_index']}.{field}"
InnerHitPath(index, field) == <<index, ".", field>>

\* as JoinPieces, had every text been followed by a newline, as the _source
\* values are
JoinPiecesNewlines(texts, sep) ==
    [k \in 1..(2 * Len(texts)) |-> IF k % 2 = 1 THEN texts[(k + 1) \div 2] ELSE "\n"]

RECURSIVE JoinPieces(_, _)
\* sep.join(texts)
JoinPieces(texts, sep) ==
    IF texts = <<>> THEN <<>>
    ELSE IF Len(texts) = 1 THEN <<texts[1]>>
    ELSE <<texts[1], sep>> \o JoinPieces(Tail(texts), sep)

RECURSIVE BuildContext(_, _, _)
\* the for loop of create_prompt / create_openai_prompt over the hits left,
\* with the context built so far; error names the exception a hit raised
BuildContext(hits, isf, context) ==
    IF hits = <<>> THEN [error |-> "none", context |-> context]
    ELSE LET hit == Head(hits)
         IN  IF hit._index \notin DOMAIN isf
             THEN [error |-> "TypeError", context |-> context]
             ELSE IF isf[hit._index] = <<>>
             THEN [error |-> "IndexError", context |-> context]
             ELSE LET inner_hit_path == InnerHitPath(hit._index, isf[hit._index][1])
                  IN  IF /\ "inner_hits" \in DOMAIN hit
                         /\ inner_hit_path \in DOMAIN hit["inner_hits"]
                      THEN LET inner == hit["inner_hits"][inner_hit_path]
                           IN  BuildContext(Tail(hits), isf,
                                   context \o JoinPieces(
                                       [i \in 1..Len(inner) |-> inner[i]._source.text],
                                       "\n --- \n"))
                      ELSE LET source_field == isf[hit._index][1]
                           IN  IF source_field \notin DOMAIN hit._source
                               THEN [error |-> "KeyError", context |-> context]
                               ELSE BuildContext(Tail(hits), isf,
                                        context \o <<hit._source[source_field], "\n">>)

\* as PromptText, had the prompt left the question out
PromptWithoutQuestion(context, q) ==
    <<"Instructions ... Context:">> \o context \o <<"Question: ", "Answer:">>

\* the f-string prompt around the context and the question
PromptText(context, q) ==
    <<"Instructions ... Context:">> \o context \o <<"Question: ", q, "Answer:">>

\* as CreatePrompt, had the hits of an index that index_source_fields does
\* not list been skipped
CreatePromptSkippingUnknown(q, hits, isf) ==
    LET known == SelectSeq(hits, LAMBDA hit : hit._index \in DOMAIN isf)
        built == BuildContext(known, isf, <<>>)
    IN  [error |-> built.error,
         prompt |-> IF built.error = "none" THEN PromptText(built.context, q) ELSE <<>>]

\* create_prompt / create_openai_prompt: the exception raised, or the prompt
CreatePrompt(q, hits, isf) ==
    LET built == BuildContext(hits, isf, <<>>)
    IN  [error |-> built.error,
         prompt |-> IF built.error = "none" THEN PromptText(built.context, q) ELSE <<>>]

(* What the search may return *)

Indexes == {"bm25-index", "other-index"}

Sources(i) ==
    {[text |-> <<"text", i>>, title |-> <<"title", i>>],
     [title |-> <<"title", i>>]}

InnerHits(i) ==
    <<[_source |-> [text |-> <<"chunk", i, 1>>]],
      [_source |-> [text |-> <<"chunk", i, 2>>]]>>

HitsAt(i) ==
    LET plain == {[_index |-> x, _source |-> src] : x \in Indexes, src \in Sources(i)}
    IN  plain
        \cup {("inner_hits" :> (InnerHitPath(h._index, f) :> InnerHits(i))) @@ h :
                h \in plain, f \in {"text", "title"}}

HitSeqs(n) ==
    UNION {{r \in [1..m -> UNION {HitsAt(i) : i \in 1..m}] :
                \A i \in 1..m : r[i] \in HitsAt(i)} : m \in 0..n}

IndexSourceFieldsChoices ==
    {("bm25-index" :> <<"text">>),
     ("bm25-index" :> <<"title", "text">>)}

\* response.content of the Bedrock client / response.choices of the OpenAI client
Completions == {<<>>, <<"answer">>, <<"answer", "more">>}

----------------------------------------------------------------------------
(* Initial states *)

JudgeIdle ==
    /\ evaluator = NoEvaluator
    /\ model_loaded = FALSE
    /\ prompts = <<>>
    /\ gen_args = <<>>
    /\ pipeline_calls = 0
    /\ pipe_out = <<>>
    /\ yielded = <<>>
    /\ data_pos = 0
    /\ outputs = <<>>
    /\ history = <<>>

RagIdle ==
    /\ results = <<>>
    /\ context_prompt = <<>>
    /\ completion = <<>>
    /\ es_calls = 0
    /\ completion_calls = 0
    /\ sent_prompt = <<>>
    /\ printed = <<>>

\* the relevance-judge notebook with the run parameters and data drawn from
\* the sets given; directs: the response_types lists an evaluator built
\* directly may be given
InitJudgeWith(datasets, maxiter, texts, directs) ==
    /\ script = "judge"
    /\ pc = "start"
    /\ error = "none"
    /\ task_type \in TaskTypes
    /\ temperature \in Temperatures
    /\ iterations \in 1..maxiter
    /\ data \in datasets
    /\ vocab = texts
    /\ direct_types \in {NotDirect} \cup
           (IF task_type = "qa_pointwise" THEN directs ELSE {})
    /\ JudgeIdle
    /\ index_source_fields = <<>>
    /\ RagIdle

InitJudge(datasets, maxiter, texts) ==
    InitJudgeWith(datasets, maxiter, texts, DirectTypes)

InitRag ==
    /\ script \in {"bedrock", "openai"}
    /\ pc = "start"
    /\ error = "none"
    /\ index_source_fields \in IndexSourceFieldsChoices
    /\ RagIdle
    /\ task_type = "qa_pointwise"
    /\ temperature = 0
    /\ iterations = 1
    /\ data = <<>>
    /\ vocab = {}
    /\ direct_types = NotDirect
    /\ JudgeIdle

Init == InitJudge(DataSets(MaxRecords), MaxRunIterations, RunTexts) \/ InitRag

\* one prompt, the full set of model outputs
InitEval ==
    InitJudge({d \in DataSets(1) : d # <<>> /\ "positive_text" \in DOMAIN d[1]},
              MaxIterations, Texts)

\* one prompt, the model outputs of the run loop; qa_pairwise is left out, its
\* evaluator being the one of qa_pointwise
InitCalls ==
    /\ InitJudge({d \in DataSets(1) : d # <<>> /\ "positive_text" \in DOMAIN d[1]},
                 MaxRunIterations, RunTexts)
    /\ task_type # "qa_pairwise"

\* one prompt, evaluators built directly with response types that hold
\* characters of the pattern syntax among them
InitRegex ==
    InitJudgeWith({d \in DataSets(1) : d # <<>> /\ "positive_text" \in DOMAIN d[1]},
                  MaxRunIterations, Texts \cup RegexTexts,
                  DirectTypes \cup MetaDirectTypes)

----------------------------------------------------------------------------
(* The relevance-judge notebook *)

\* as Fail, had the exception been caught and the step tried again
CatchAndRetry(exc) ==
    /\ pc' = pc
    /\ error' = exc

\* an exception nothing catches: it propagates and ends the run
Fail(exc) ==
    /\ pc' = "failed"
    /\ error' = exc

\* as GetLlmEvaluatorResult, had the model been loaded before the sanity check
GetLlmEvaluatorLoadsFirst(task, iters, temp) ==
    IF task \notin DOMAIN POOL
    THEN [error |-> "ValueError", evaluator |-> NoEvaluator, loaded |-> TRUE]
    ELSE [error |-> "none",
          evaluator |-> Phi3Evaluator(POOL[task].response_types, iters, temp),
          loaded |-> TRUE]

\* get_llm_evaluator(model_name_or_path, task_type, iterations, temperature):
\* the exception it raises, the evaluator it returns, and whether the model
\* was loaded (Phi3Evaluator.__init__ ran)
GetLlmEvaluatorResult(task, iters, temp) ==
    IF task \notin DOMAIN POOL
    THEN [error |-> "ValueError", evaluator |-> NoEvaluator, loaded |-> FALSE]
    ELSE [error |-> "none",
          evaluator |-> Phi3Evaluator(POOL[task].response_types, iters, temp),
          loaded |-> TRUE]

\* llm_evaluator = get_llm_evaluator(MODEL_NAME, TASK_TYPE, ITERATIONS, TEMPERATURE)
GetLlmEvaluator ==
    /\ script = "judge" /\ pc = "start" /\ ~direct_types.direct
    /\ LET got == GetLlmEvaluatorResult(task_type, iterations, temperature)
       IN  /\ model_loaded' = got.loaded
           /\ evaluator' = got.evaluator
           /\ IF got.error # "none"
              THEN Fail(got.error)
              ELSE /\ pc' = "ready"
                   /\ error' = error
    /\ UNCHANGED <<script, task_type, temperature, iterations, data, vocab,
                   direct_types, prompts, gen_args, pipeline_calls, pipe_out,
                   yielded, data_pos, outputs, history, rag_vars>>

\* llm_evaluator = Phi3Evaluator(MODEL_NAME, response_types, ITERATIONS, TEMPERATURE)
ConstructEvaluator ==
    /\ script = "judge" /\ pc = "start" /\ direct_types.direct
    /\ evaluator' = Phi3Evaluator(direct_types.types, iterations, temperature)
    /\ model_loaded' = TRUE
    /\ pc' = "ready"
    /\ UNCHANGED <<script, error, task_type, temperature, iterations, data, vocab,
                   direct_types, prompts, gen_args, pipeline_calls, pipe_out,
                   yielded, data_pos, outputs, history, rag_vars>>

\* as EnterCall, had __call__ kept its batch size on the instance, as the
\* number of generations to ask for
EnterCallKeepsBatchSize(ev, max_output_tokens, batch_size) ==
    [self |-> [ev EXCEPT !._iterations = batch_size],
     gen_args |-> UpdateGenArgs(GetGenerationArgs(ev), batch_size, max_output_tokens)]

\* the first two statements of __call__: the instance as they leave it (they
\* assign no attribute of self) and the local gen_args, a dict made anew by
\* _get_generation_args
EnterCall(ev, max_output_tokens, batch_size) ==
    [self |-> ev,
     gen_args |-> UpdateGenArgs(GetGenerationArgs(ev), batch_size, max_output_tokens)]

\* the record kept of a call of llm_evaluator, from its start
CallRecord(max_output_tokens, batch_size, args) ==
    [max_output_tokens |-> max_output_tokens,
     batch_size |-> batch_size,
     gen_args |-> args,
     finished |-> FALSE,
     prompts |-> <<>>,
     pipe_out |-> <<>>,
     yielded |-> <<>>]

\* llm_evaluator(gen_prompts(), max_output_tokens=..., batch_size=...) is
\* entered by the first next() of the zip: the generation arguments are set
\* before the prompts are read
StartCall(max_output_tokens, batch_size) ==
    LET entered == EnterCall(evaluator, max_output_tokens, batch_size)
    IN  /\ evaluator' = entered.self
        /\ gen_args' = entered.gen_args
        /\ history' = Append(history,
                          CallRecord(max_output_tokens, batch_size, entered.gen_args))
        /\ outputs' = <<>>
        /\ prompts' = <<>>
        /\ pipe_out' = <<>>
        /\ yielded' = <<>>
        /\ data_pos' = 0
        /\ pc' = "materialising"

\* outputs = []; the run loop calls llm_evaluator with the task's
\* max_output_tokens and BATCH_SIZE
CallBegin ==
    /\ script = "judge" /\ pc = "ready"
    /\ StartCall(POOL[task_type].max_output_tokens, BATCH_SIZE)
    /\ UNCHANGED <<script, error, task_type, temperature, iterations, data, vocab,
                   direct_types, model_loaded, pipeline_calls, rag_vars>>

\* the call that has run to its end, as kept in history
Finished(call) ==
    [call EXCEPT !.finished = TRUE,
                 !.prompts = prompts,
                 !.pipe_out = pipe_out,
                 !.yielded = yielded]

\* a call has run to its end and the evaluator is called once more: the call
\* that ended is kept in history and the next one is entered
NextCall(max_output_tokens, batch_size) ==
    LET entered == EnterCall(evaluator, max_output_tokens, batch_size)
        n == Len(history)
    IN  /\ evaluator' = entered.self
        /\ gen_args' = entered.gen_args
        /\ history' =
              Append([history EXCEPT ![n] = Finished(history[n])],
                     CallRecord(max_output_tokens, batch_size, entered.gen_args))
        /\ outputs' = <<>>
        /\ prompts' = <<>>
        /\ pipe_out' = <<>>
        /\ yielded' = <<>>
        /\ data_pos' = 0
        /\ pc' = "materialising"

\* the run-loop cell is run again as written: the same evaluator is called
\* with the task's max_output_tokens and BATCH_SIZE
CallAgain ==
    /\ script = "judge" /\ pc = "done"
    /\ Len(history) < MaxCalls
    /\ NextCall(POOL[task_type].max_output_tokens, BATCH_SIZE)
    /\ UNCHANGED <<script, error, task_type, temperature, iterations, data, vocab,
                   direct_types, model_loaded, pipeline_calls, rag_vars>>

\* batch_size when the call does not give it: `batch_size: int = 8`
DefaultBatchSize == 8

\* a max_output_tokens of POOL other than the task's own
OtherMaxOutputTokens(task) ==
    IF POOL[task].max_output_tokens = POOL.chain_of_thought.max_output_tokens
    THEN POOL.qa_pointwise.max_output_tokens
    ELSE POOL.chain_of_thought.max_output_tokens

\* the run-loop cell is run again with the arguments of its call changed:
\* batch_size left to its default and another max_output_tokens
CallAgainOtherArguments ==
    /\ script = "judge" /\ pc = "done"
    /\ Len(history) < MaxCalls
    /\ NextCall(OtherMaxOutputTokens(task_type), DefaultBatchSize)
    /\ UNCHANGED <<script, error, task_type, temperature, iterations, data, vocab,
                   direct_types, model_loaded, pipeline_calls, rag_vars>>

\* one step of generate_prompts, driven by the list comprehension of __call__
GeneratePrompt ==
    /\ script = "judge" /\ pc = "materialising"
    /\ Len(prompts) < Len(data)
    /\ LET line == data[Len(prompts) + 1]
       IN  IF ~HasNecessaryKeys(line, task_type)
           THEN /\ Fail("AssertionError")
                /\ prompts' = prompts
           ELSE /\ prompts' = Append(prompts, PipelineInput(FormatPrompt(line, task_type)))
                /\ UNCHANGED <<pc, error>>
    /\ UNCHANGED <<script, task_type, temperature, iterations, data, vocab,
                   direct_types, evaluator, model_loaded, gen_args, pipeline_calls,
                   pipe_out, yielded, data_pos, outputs, history, rag_vars>>

\* as PipelineReturns, had the prompts been handed to the pipeline as they
\* are read: it returns for the prompts formatted so far
PipelineReturnsEarly ==
    /\ script = "judge" /\ pc = "materialising"
    /\ Len(prompts) >= 1
    /\ pipeline_calls' = pipeline_calls + 1
    /\ pipe_out' \in [1..Len(prompts) ->
                         PipelineOutputs(gen_args["num_return_sequences"], vocab)]
    /\ pc' = "generated"
    /\ UNCHANGED <<script, error, task_type, temperature, iterations, data, vocab,
                   direct_types, evaluator, model_loaded, prompts, gen_args,
                   yielded, data_pos, outputs, history, rag_vars>>

\* self.pipeline(inputs_for_pipeline, **gen_args) returns one output per prompt
PipelineReturns ==
    /\ script = "judge" /\ pc = "materialising"
    /\ Len(prompts) = Len(data)
    /\ pipeline_calls' = pipeline_calls + 1
    /\ pipe_out' \in [1..Len(prompts) ->
                         PipelineOutputs(gen_args["num_return_sequences"], vocab)]
    /\ pc' = "generated"
    /\ UNCHANGED <<script, error, task_type, temperature, iterations, data, vocab,
                   direct_types, evaluator, model_loaded, prompts, gen_args,
                   yielded, data_pos, outputs, history, rag_vars>>

\* self.pipeline(...) raises
PipelineRaises ==
    /\ script = "judge" /\ pc = "materialising"
    /\ Len(prompts) = Len(data)
    /\ pipeline_calls' = pipeline_calls + 1
    /\ Fail("PipelineError")
    /\ UNCHANGED <<script, task_type, temperature, iterations, data, vocab,
                   direct_types, evaluator, model_loaded, prompts, gen_args,
                   pipe_out, yielded, data_pos, outputs, history, rag_vars>>

\* one iteration of the run loop: __call__ yields the next tuple, gen_data()
\* yields the next line, and the row is appended to outputs
LoopIteration ==
    /\ script = "judge" /\ pc = "generated"
    /\ Len(yielded) < Len(pipe_out)
    /\ LET tuple == CallYield(evaluator.regex_str, pipe_out[Len(yielded) + 1])
           data_tuple == data[data_pos + 1]
       IN  /\ yielded' = Append(yielded, tuple)
           /\ IF data_pos >= Len(data)
              THEN /\ pc' = "done"
                   /\ UNCHANGED <<error, data_pos, outputs>>
              ELSE IF ~HasNecessaryKeys(data_tuple, task_type)
              THEN /\ Fail("AssertionError")
                   /\ UNCHANGED <<data_pos, outputs>>
              ELSE /\ data_pos' = data_pos + 1
                   /\ outputs' = Append(outputs, JsonOut(data_tuple, task_type, tuple))
                   /\ UNCHANGED <<pc, error>>
    /\ UNCHANGED <<script, task_type, temperature, iterations, data, vocab,
                   direct_types, evaluator, model_loaded, prompts, gen_args,
                   pipeline_calls, pipe_out, history,
                   rag_vars>>

\* the pipeline's outputs are exhausted: __call__ returns and the zip stops
LoopEnd ==
    /\ script = "judge" /\ pc = "generated"
    /\ Len(yielded) = Len(pipe_out)
    /\ pc' = "done"
    /\ UNCHANGED <<script, error, judge_vars, rag_vars>>

NextJudge ==
    \/ GetLlmEvaluator
    \/ ConstructEvaluator
    \/ CallBegin
    \/ GeneratePrompt
    \/ PipelineReturns
    \/ PipelineRaises
    \/ LoopIteration
    \/ LoopEnd

\* the relevance judge with its evaluator called again and again
NextCalls == NextJudge \/ CallAgain \/ CallAgainOtherArguments

----------------------------------------------------------------------------
(* The RAG playground scripts *)

IsRag == script \in {"bedrock", "openai"}

\* elasticsearch_results = get_elasticsearch_results(question): the search returns
SearchReturns ==
    /\ IsRag /\ pc = "start"
    /\ es_calls' = es_calls + 1
    /\ results' \in HitSeqs(MaxHits)
    /\ pc' = "searched"
    /\ UNCHANGED <<script, error, judge_vars, index_source_fields, context_prompt,
                   completion, completion_calls, sent_prompt, printed>>

\* es_client.search raises
SearchRaises ==
    /\ IsRag /\ pc = "start"
    /\ es_calls' = es_calls + 1
    /\ Fail("SearchError")
    /\ UNCHANGED <<script, judge_vars, index_source_fields, results, context_prompt,
                   completion, completion_calls, sent_prompt, printed>>

\* context_prompt = create_prompt(question, elasticsearch_results)   (Bedrock)
\* context_prompt = create_openai_prompt(question, elasticsearch_results) (OpenAI)
BuildPrompt ==
    /\ IsRag /\ pc = "searched"
    /\ LET made == CreatePrompt(question, results, index_source_fields)
       IN  IF made.error # "none"
           THEN /\ Fail(made.error)
                /\ UNCHANGED context_prompt
           ELSE /\ context_prompt' = made.prompt
                /\ pc' = "prompted"
                /\ UNCHANGED error
    /\ UNCHANGED <<script, judge_vars, index_source_fields, results, completion,
                   es_calls, completion_calls, sent_prompt, printed>>

\* generate_completion / generate_openai_completion: the request returns.
\* The OpenAI script reads response.choices[0] inside the function.
CompletionReturns ==
    /\ IsRag /\ pc = "prompted"
    /\ completion_calls' = completion_calls + 1
    /\ sent_prompt' = context_prompt
    /\ \E response \in Completions :
          IF script = "openai"
          THEN IF response = <<>>
               THEN /\ Fail("IndexError")
                    /\ UNCHANGED completion
               ELSE /\ completion' = response[1]
                    /\ pc' = "completed"
                    /\ UNCHANGED error
          ELSE /\ completion' = response
               /\ pc' = "completed"
               /\ UNCHANGED error
    /\ UNCHANGED <<script, judge_vars, index_source_fields, results, context_prompt,
                   es_calls, printed>>

\* the chat-completion request raises
CompletionRaises ==
    /\ IsRag /\ pc = "prompted"
    /\ completion_calls' = completion_calls + 1
    /\ sent_prompt' = context_prompt
    /\ Fail("CompletionError")
    /\ UNCHANGED <<script, judge_vars, index_source_fields, results, context_prompt,
                   completion, es_calls, printed>>

\* print(completion[0].text)   (Bedrock)
\* print(openai_completion)    (OpenAI)
PrintCompletion ==
    /\ IsRag /\ pc = "completed"
    /\ IF script = "bedrock"
       THEN IF completion = <<>>
            THEN /\ Fail("IndexError")
                 /\ UNCHANGED printed
            ELSE /\ printed' = Append(printed, completion[1])
                 /\ pc' = "done"
                 /\ UNCHANGED error
       ELSE /\ printed' = Append(printed, completion)
            /\ pc' = "done"
            /\ UNCHANGED error
    /\ UNCHANGED <<script, judge_vars, index_source_fields, results, context_prompt,
                   completion, es_calls, completion_calls, sent_prompt>>

NextRag ==
    \/ SearchReturns
    \/ SearchRaises
    \/ BuildPrompt
    \/ CompletionReturns
    \/ CompletionRaises
    \/ PrintCompletion

----------------------------------------------------------------------------
(* Specifications *)

Next == NextJudge \/ NextRag

\* the notebooks, each run from its first cell
Spec == Init /\ [][Next]_vars

\* the relevance judge on a single prompt, over the full set of model outputs
SpecEval == InitEval /\ [][NextJudge]_vars

\* one evaluator called up to MaxCalls times on the same prompt
SpecCalls == InitCalls /\ [][NextCalls]_vars

\* the relevance judge on a single prompt, over response types with and
\* without characters of the pattern syntax
SpecRegex == InitRegex /\ [][NextJudge]_vars

----------------------------------------------------------------------------
(* Properties *)

SupportedTasks == {"qa_pointwise", "qa_pairwise", "chain_of_thought"}

\* the response_types the evaluator of this run is built with
BuiltTypes ==
    IF direct_types.direct THEN direct_types.types
    ELSE IF task_type \in SupportedTasks THEN POOL[task_type].response_types
    ELSE <<>>

\* text holds an occurrence of word, letter case ignored
ContainsIgnoringCase(text, word) ==
    \E pos \in 1..(Len(text) - Len(word) + 1) :
        FoldStr(SubSeq(text, pos, pos + Len(word) - 1)) = FoldStr(word)

ContainsResponseType(text) ==
    \E k \in 1..Len(BuiltTypes) : ContainsIgnoringCase(text, BuiltTypes[k])

\* the parsable outputs of a yielded tuple
ParsableOf(t) == SelectSeq(t.parsed, LAMBDA o : o # sUnparsable)

\* the characters `re` does not read as themselves
MetaChars == {".", "^", "$", "*", "+", "?", "{", "}", "[", "]", "\\", "|", "(", ")"}

\* no response type of the evaluator holds a character of the pattern syntax
LiteralTypes ==
    \A k \in 1..Len(BuiltTypes) :
        \A c \in 1..Len(BuiltTypes[k]) : BuiltTypes[k][c] \notin MetaChars

\* C1 as stated: with a non-empty response_types list, _postprocess_output
\* returns "Unparsable" for exactly the model outputs that hold no occurrence
\* (letter case ignored) of any response type.
C1_UnparsableIffNoMatch ==
    \A i \in 1..Len(yielded) :
        \A j \in 1..Len(yielded[i].raw) :
            BuiltTypes # <<>> =>
                ((yielded[i].parsed[j] = sUnparsable)
                    <=> ~ContainsResponseType(yielded[i].raw[j]))

\* C1 amended: with a non-empty response_types list none of whose strings
\* holds a character of the pattern syntax, _postprocess_output returns
\* "Unparsable" for exactly the model outputs that hold no occurrence (letter
\* case ignored) of any response type.
C1_LiteralTypesUnparsableIffNoMatch ==
    \A i \in 1..Len(yielded) :
        \A j \in 1..Len(yielded[i].raw) :
            (BuiltTypes # <<>> /\ LiteralTypes) =>
                ((yielded[i].parsed[j] = sUnparsable)
                    <=> ~ContainsResponseType(yielded[i].raw[j]))

\* C1 witness: with response types free of pattern syntax, one prompt's
\* generations hold an unmatched text, labelled "Unparsable", and a text
\* matched inside a longer word ("Irrelevant")
C1_Witness ==
    /\ BuiltTypes # <<>>
    /\ LiteralTypes
    /\ \E i \in 1..Len(yielded) :
          \E j, k \in 1..Len(yielded[i].raw) :
              /\ yielded[i].raw[j] = sMaybe
              /\ yielded[i].parsed[j] = sUnparsable
              /\ yielded[i].raw[k] = <<"I", "r">> \o FoldStr(sRelevant)
              /\ yielded[i].parsed[k] # sUnparsable

\* a text matched although no response type occurs in it: "Yes," by the
\* response type "Yes.", whose "." stands for any character
C1_MatchedWithoutOccurrence ==
    \E i \in 1..Len(yielded) :
        \E j \in 1..Len(yielded[i].raw) :
            /\ BuiltTypes # <<>>
            /\ ~ContainsResponseType(yielded[i].raw[j])
            /\ yielded[i].parsed[j] # sUnparsable

\* a text left unmatched although a response type occurs in it: "A+B", whose
\* "+" the response type "A+B" reads as a repetition of "A"
C1_OccurrenceUnmatched ==
    \E i \in 1..Len(yielded) :
        \E j \in 1..Len(yielded[i].raw) :
            /\ BuiltTypes # <<>>
            /\ ContainsResponseType(yielded[i].raw[j])
            /\ yielded[i].parsed[j] = sUnparsable

\* C2: when a prompt has a parsable output, the winning label occurs among
\* the parsable outputs at least as often as every other label, and the
\* agreement is its count over the number of parsable outputs, rounded to
\* two decimals; Relevant, Relevant, Not Relevant gives Relevant with 0.67.
C2_MajorityVote ==
    \A i \in 1..Len(yielded) :
        LET t == yielded[i]
            clean == ParsableOf(t)
            n == Len(clean)
            c == CountOf(clean, t.label)
        IN  /\ clean # <<>> =>
                /\ c >= 1
                /\ \A j \in 1..n : CountOf(clean, clean[j]) <= c
                /\ 2 * (100 * c - t.agreement * n) <= n
                /\ 2 * (t.agreement * n - 100 * c) <= n
            /\ t.parsed = <<sRelevant, sRelevant, sNotRelevant>> =>
                (t.label = sRelevant /\ t.agreement = 67)

\* C2 witness: the outputs Relevant, Relevant, Not Relevant were aggregated
C2_Witness ==
    \E i \in 1..Len(yielded) :
        /\ yielded[i].raw = <<sRelevant, sRelevant, sNotRelevant>>
        /\ yielded[i].parsed = <<sRelevant, sRelevant, sNotRelevant>>
        /\ yielded[i].agreement = 67

\* C3: the label __call__ yields is one of the strings of response_types or
\* "Unparsable" (for an evaluator built by get_llm_evaluator).
C3_LabelInClosedSet ==
    \A i \in 1..Len(yielded) :
        ~direct_types.direct =>
            yielded[i].label \in Range(BuiltTypes) \cup {sUnparsable}

\* the fields a record must have for a task: positive_text only for qa_pairwise
RequiredKeys(task) ==
    IF task = "qa_pairwise" THEN Keys ELSE Keys \ {"positive_text"}

Complete(line) == RequiredKeys(task_type) \subseteq DOMAIN line

\* C4: a record that lacks a required field raises AssertionError before its
\* prompt is formatted: no prompt and no line is yielded for it and the
\* pipeline is never reached; a record with all required fields never
\* triggers the assertion.
C4_AssertRequiredFields ==
    (script = "judge" /\ task_type \in SupportedTasks) =>
        /\ \A i \in 1..Len(prompts) : Complete(data[i])
        /\ \A i \in 1..data_pos : Complete(data[i])
        /\ error = "AssertionError" =>
              /\ Len(prompts) < Len(data)
              /\ ~Complete(data[Len(prompts) + 1])
        /\ pipeline_calls > 0 => \A i \in 1..Len(data) : Complete(data[i])

\* C4 witness: in a qa_pairwise run the first record got its prompt and the
\* second, which lacks positive_text only, raised the assertion
C4_Witness ==
    /\ task_type = "qa_pairwise"
    /\ error = "AssertionError"
    /\ Len(prompts) = 1
    /\ DOMAIN data[2] = Keys \ {"positive_text"}

\* C5: for every task type of POOL the label stored in LLM_mapped_response
\* for a parsable output is "Relevant" or "Not Relevant", the vocabulary of
\* human_judgment.
C5_BinaryLabels ==
    \A i \in 1..Len(outputs) :
        ~direct_types.direct =>
            outputs[i]["LLM_mapped_response"] \in {sRelevant, sNotRelevant, sUnparsable}

\* the generation arguments have been set
ArgsSet == script = "judge" /\ pc \notin {"start", "ready"} /\ error # "ValueError"

\* C6: with temperature > 0 the pipeline samples and is asked for `iterations`
\* generations per prompt, all of which are aggregated; with temperature 0
\* sampling is off and one generation is asked for whatever `iterations` is,
\* so the agreement is 1.0 for a parsable output and -1.0 otherwise.
C6_DecodingOptions ==
    ArgsSet =>
        IF temperature > 0
        THEN /\ gen_args["do_sample"] = TRUE
             /\ gen_args["num_return_sequences"] = iterations
             /\ \A i \in 1..Len(yielded) :
                   /\ Len(yielded[i].raw) = iterations
                   /\ Len(yielded[i].parsed) = iterations
                   /\ yielded[i].label \in Range(yielded[i].parsed) \cup {sUnparsable}
        ELSE /\ gen_args["do_sample"] = FALSE
             /\ gen_args["num_return_sequences"] = 1
             /\ \A i \in 1..Len(yielded) :
                   /\ Len(yielded[i].raw) = 1
                   /\ yielded[i].agreement =
                         IF yielded[i].parsed[1] # sUnparsable THEN 100 ELSE -100

\* C6 witness: greedy decoding with ITERATIONS = 2 yielded a parsable output
C6_Witness ==
    /\ temperature = 0
    /\ iterations = 2
    /\ Len(yielded) = 1
    /\ yielded[1].agreement = 100

\* C7: when the run loop has finished, outputs has one row per record, in
\* order, and row i holds record i's fields with the raw texts, label and
\* agreement of the generations of record i's prompt.
C7_RowsPairedWithRecords ==
    (script = "judge" /\ pc = "done") =>
        /\ Len(outputs) = Len(data)
        /\ Len(pipe_out) = Len(data)
        /\ \A i \in 1..Len(outputs) :
              /\ \A k \in RequiredKeys(task_type) :
                    k \in DOMAIN outputs[i] /\ outputs[i][k] = data[i][k]
              /\ \A k \in DOMAIN prompts[i][1].content.fields :
                    prompts[i][1].content.fields[k] = data[i][k]
              /\ outputs[i]["LLM_raw_response"] = pipe_out[i].items
              /\ yielded[i].raw = pipe_out[i].items
              /\ outputs[i]["LLM_mapped_response"] = yielded[i].label
              /\ outputs[i]["LLM_agreement"] = yielded[i].agreement

\* C7 witness: a finished run over two records whose rows differ in label
C7_Witness ==
    /\ script = "judge" /\ pc = "done"
    /\ Len(outputs) = 2
    /\ outputs[1]["LLM_mapped_response"] # outputs[2]["LLM_mapped_response"]

\* the pattern "(a|b)"
PatternOf(a, b) == <<"(">> \o a \o <<"|">> \o b \o <<")">>

\* C8: get_llm_evaluator raises ValueError for a task type that is not in
\* POOL, before any model is loaded or evaluator built; for a supported task
\* type the evaluator is built with that task's response types.
C8_UnsupportedTaskType ==
    (script = "judge" /\ ~direct_types.direct /\ pc # "start") =>
        IF task_type \notin SupportedTasks
        THEN /\ error = "ValueError" /\ pc = "failed"
             /\ ~model_loaded
             /\ ~evaluator.built
        ELSE /\ error # "ValueError"
             /\ model_loaded
             /\ evaluator.built
             /\ evaluator.regex_str =
                   IF task_type = "chain_of_thought"
                   THEN PatternOf(sAnswerRelevant, sAnswerNotRelevant)
                   ELSE PatternOf(sRelevant, sNotRelevant)

\* C8 witness: TASK_TYPE = "pointwise" ended the run with ValueError
C8_Witness ==
    /\ task_type = "pointwise"
    /\ error = "ValueError"

\* C9: a RAG script issues one search, then builds the prompt from the
\* question and the hits returned, then issues one chat-completion request
\* with that prompt, then prints the completion; no completion request comes
\* before the search has returned and nothing is printed if a request fails.
C9_LinearFlow ==
    IsRag =>
        /\ es_calls <= 1 /\ completion_calls <= 1
        /\ pc = "start" => (es_calls = 0 /\ completion_calls = 0)
        /\ completion_calls = 1 =>
              /\ es_calls = 1 /\ error # "SearchError"
              /\ sent_prompt = context_prompt
              /\ \E i \in 1..Len(sent_prompt) : sent_prompt[i] = question
              /\ \A i \in 1..Len(results) :
                    "inner_hits" \notin DOMAIN results[i] =>
                        \E j \in 1..Len(sent_prompt) :
                            sent_prompt[j] \in
                                {results[i]._source[f] : f \in DOMAIN results[i]._source}
        /\ printed # <<>> =>
              /\ pc = "done" /\ error = "none"
              /\ es_calls = 1 /\ completion_calls = 1
              /\ printed = <<IF script = "bedrock" THEN completion[1] ELSE completion>>
        /\ pc = "done" => (printed # <<>> /\ es_calls = 1 /\ completion_calls = 1)
        /\ error \in {"SearchError", "CompletionError"} => printed = <<>>

\* C9 witness: the Bedrock script printed the completion of a prompt built
\* from two hits
C9_Witness ==
    /\ script = "bedrock" /\ pc = "done"
    /\ Len(results) = 2
    /\ printed # <<>>

\* C10: every external call (text-generation pipeline, search, chat
\* completion) is issued at most once per run, and an error it raises ends
\* the run: nothing runs after it, no row is stored and nothing is printed.
C10_NoRetry ==
    /\ pipeline_calls <= 1 /\ es_calls <= 1 /\ completion_calls <= 1
    /\ error \in {"PipelineError", "SearchError", "CompletionError"} =>
          /\ pc = "failed"
          /\ ~ENABLED Next
          /\ outputs = <<>>
          /\ printed = <<>>

\* C10 witness: the pipeline call of a run with two prompts raised
C10_Witness ==
    /\ error = "PipelineError"
    /\ pipeline_calls = 1
    /\ Len(prompts) = 2

\* the calls of the evaluator that have run to their end, oldest first
FinishedCalls ==
    IF history # <<>> /\ pc = "done"
    THEN [history EXCEPT ![Len(history)] = Finished(history[Len(history)])]
    ELSE SubSeq(history, 1, Len(history) - 1)

\* the keyword arguments a call with these arguments hands to the pipeline,
\* given the TEMPERATURE and ITERATIONS the evaluator was built with
ExpectedGenArgs(max_output_tokens, batch_size) ==
    IF temperature > 0
    THEN [return_full_text |-> FALSE,
          temperature |-> temperature,
          do_sample |-> TRUE,
          num_return_sequences |-> iterations,
          num_beams |-> 2 * iterations,
          batch_size |-> batch_size,
          max_new_tokens |-> max_output_tokens]
    ELSE [return_full_text |-> FALSE,
          do_sample |-> FALSE,
          num_return_sequences |-> 1,
          batch_size |-> batch_size,
          max_new_tokens |-> max_output_tokens]

\* C11: calls leave the evaluator's regex_str, _temperature and _iterations
\* as the constructor set them; the generation arguments of every call come
\* from these and from that call's own batch_size and max_output_tokens;
\* and two finished calls with the same prompts and the same model outputs
\* yielded the same tuples, whatever calls were made before or between them.
C11_NoStateAcrossCalls ==
    (script = "judge" /\ evaluator.built) =>
        /\ evaluator.regex_str = RegexStr(BuiltTypes)
        /\ evaluator._temperature = temperature
        /\ evaluator._iterations = iterations
        /\ \A i \in 1..Len(history) :
              history[i].gen_args =
                  ExpectedGenArgs(history[i].max_output_tokens, history[i].batch_size)
        /\ \A i, j \in 1..Len(FinishedCalls) :
              (/\ FinishedCalls[i].prompts = FinishedCalls[j].prompts
               /\ FinishedCalls[i].pipe_out = FinishedCalls[j].pipe_out)
                  => FinishedCalls[i].yielded = FinishedCalls[j].yielded

\* C11 witness: three finished calls; the first and the third got the same
\* model outputs and arguments, the second other outputs, another batch size
\* and another max_output_tokens
C11_Witness ==
    /\ Len(FinishedCalls) = 3
    /\ FinishedCalls[1].yielded # <<>>
    /\ FinishedCalls[1].pipe_out = FinishedCalls[3].pipe_out
    /\ FinishedCalls[1].batch_size = FinishedCalls[3].batch_size
    /\ FinishedCalls[2].pipe_out # FinishedCalls[1].pipe_out
    /\ FinishedCalls[2].yielded # FinishedCalls[1].yielded
    /\ FinishedCalls[2].batch_size # FinishedCalls[1].batch_size
    /\ FinishedCalls[2].max_output_tokens # FinishedCalls[1].max_output_tokens

\* the text, a sequence of pieces, has this piece
HasPiece(text, piece) == \E j \in 1..Len(text) : text[j] \in {piece}

\* what a hit holds for a field: the texts of its inner hits under the
\* field's path when it has them (a semantic_text match), else its _source
\* value of the field, if any
FieldContent(hit, field) ==
    IF /\ "inner_hits" \in DOMAIN hit
       /\ InnerHitPath(hit._index, field) \in DOMAIN hit["inner_hits"]
    THEN LET inner == hit["inner_hits"][InnerHitPath(hit._index, field)]
         IN  {inner[i]._source.text : i \in 1..Len(inner)}
    ELSE IF field \in DOMAIN hit._source THEN {hit._source[field]}
    ELSE {}

\* C12: once a RAG script has built its prompt, the prompt holds, for every
\* hit, the hit's content of every field that index_source_fields lists for
\* the hit's index.
C12_ContextHasConfiguredFields ==
    (IsRag /\ context_prompt # <<>>) =>
        \A i \in 1..Len(results) :
            \A k \in 1..Len(index_source_fields[results[i]._index]) :
                \A piece \in FieldContent(results[i],
                                          index_source_fields[results[i]._index][k]) :
                    HasPiece(context_prompt, piece)

\* a piece of an expected text: a content (a hit's value) or a fixed string
Content(v) == [fixed |-> FALSE, v |-> v]
Fixed(str) == [fixed |-> TRUE, v |-> str]

\* the text is, piece by piece, the expected one
IsText(text, expected) ==
    /\ Len(text) = Len(expected)
    /\ \A k \in 1..Len(expected) :
          IF expected[k].fixed
          THEN expected[k].v \in {text[k]}
          ELSE text[k] \in {expected[k].v}

\* the hit carries inner hits under "<_index>.<first configured field>"
HasInnerHits(hit) ==
    /\ "inner_hits" \in DOMAIN hit
    /\ InnerHitPath(hit._index, index_source_fields[hit._index][1])
           \in DOMAIN hit["inner_hits"]

\* what C13 says a hit contributes to the context
Contribution(hit) ==
    IF HasInnerHits(hit)
    THEN LET inner == hit["inner_hits"][
                          InnerHitPath(hit._index, index_source_fields[hit._index][1])]
         IN  [k \in 1..(2 * Len(inner) - 1) |->
                 IF k % 2 = 1
                 THEN Content(inner[(k + 1) \div 2]._source.text)
                 ELSE Fixed("\n --- \n")]
    ELSE <<Content(hit._source[index_source_fields[hit._index][1]]), Fixed("\n")>>

RECURSIVE Contributions(_)
Contributions(hits) ==
    IF hits = <<>> THEN <<>>
    ELSE Contribution(Head(hits)) \o Contributions(Tail(hits))

\* C13: in the prompt a RAG script has built, a hit with inner hits under
\* "<_index>.<first configured field>" contributes the texts of its inner
\* hits joined by "\n --- \n" and no _source value of its own, every other
\* hit its _source value of the first configured field and a newline; the
\* contributions stand in the order of the hits and the question comes after
\* the whole context.
C13_ContextContributions ==
    (IsRag /\ context_prompt # <<>>) =>
        LET expected == Contributions(results)
        IN  /\ \E start \in 1..Len(context_prompt) :
                  /\ start + Len(expected) <= Len(context_prompt)
                  /\ IsText(SubSeq(context_prompt, start + 1, start + Len(expected)),
                            expected)
                  /\ \E q \in (start + Len(expected) + 1)..Len(context_prompt) :
                        question \in {context_prompt[q]}
            /\ \A i \in 1..Len(results) :
                  HasInnerHits(results[i]) =>
                      \A f \in DOMAIN results[i]._source :
                          ~HasPiece(context_prompt, results[i]._source[f])

\* C13 witness: a prompt built from a hit with inner hits followed by a hit
\* without, in a script whose first configured field is title
C13_Witness ==
    /\ IsRag /\ context_prompt # <<>>
    /\ Len(results) = 2
    /\ index_source_fields["bm25-index"][1] = "title"
    /\ HasInnerHits(results[1])
    /\ ~HasInnerHits(results[2])
    /\ "inner_hits" \in DOMAIN results[2]

\* the generations of a yielded tuple that hold a response type
ParsableAt(t) == {j \in 1..Len(t.raw) : ContainsResponseType(t.raw[j])}

PermutationsOf ==
    [n \in 0..MaxIterations |->
        {f \in [1..n -> 1..n] : \A a, b \in 1..n : a # b => f[a] # f[b]}]

Permuted(seq, f) == [k \in 1..Len(seq) |-> seq[f[k]]]

\* the label __call__ yields for these parsed outputs
Winner(parsed_outputs) ==
    LET clean == SelectSeq(parsed_outputs, LAMBDA o : o # sUnparsable)
    IN  IF clean # <<>> THEN MostCommon1(clean)[1] ELSE sUnparsable

\* position of the first occurrence of x in seq
FirstAt(seq, x) == CHOOSE k \in 1..Len(seq) :
                       seq[k] = x /\ \A j \in 1..(k - 1) : seq[j] # x

\* C15: the label yielded is, among the labels with the highest count in the
\* prompt's parsable outputs, the one whose first occurrence comes earliest;
\* the labels that the permutations of these outputs give are exactly the
\* labels with the highest count: one label whatever the order when a single
\* label is the most frequent, each of the tied labels for some order in a tie.
C15_TieGoesToEarliest ==
    \A i \in 1..Len(yielded) :
        LET t == yielded[i]
            clean == ParsableOf(t)
            top == {clean[j] : j \in {k \in 1..Len(clean) :
                        \A m \in 1..Len(clean) :
                            CountOf(clean, clean[m]) <= CountOf(clean, clean[k])}}
            others == {Winner(Permuted(clean, f)) : f \in PermutationsOf[Len(clean)]}
        IN  clean # <<>> =>
                /\ t.label \in top
                /\ \A l \in top : FirstAt(clean, t.label) <= FirstAt(clean, l)
                /\ others = top

\* C15 witness: Not Relevant and Relevant tie after an unparsable output;
\* Not Relevant, seen first, is the label
C15_Witness ==
    \E i \in 1..Len(yielded) :
        /\ yielded[i].parsed = <<sUnparsable, sNotRelevant, sRelevant>>
        /\ yielded[i].label = sNotRelevant
        /\ Winner(<<sUnparsable, sRelevant, sNotRelevant>>) = sRelevant

\* word occurs in text at position pos, letter case ignored
OccursAt(text, word, pos) ==
    /\ pos >= 1
    /\ pos + Len(word) - 1 <= Len(text)
    /\ \A j \in 1..Len(word) : FoldChar(text[pos + j - 1]) = FoldChar(word[j])

\* the positions of text where a response type occurs
OccurrenceStarts(text) ==
    {pos \in 1..Len(text) :
        \E k \in 1..Len(BuiltTypes) : OccursAt(text, BuiltTypes[k], pos)}

\* C16: the parsed output is the text's own occurrence of a response type
\* that starts earliest in the text; with the response types Relevant and
\* Not Relevant, a text whose first "relevant" (in any letter case) comes
\* right after "not " is parsed as that "not relevant" occurrence, and any
\* other text holding "relevant" as its first "relevant".
C16_LeftmostMatch ==
    BuiltTypes # <<>> =>
        \A i \in 1..Len(yielded) :
            \A j \in 1..Len(yielded[i].raw) :
                LET text == yielded[i].raw[j]
                    parsed == yielded[i].parsed[j]
                    starts == OccurrenceStarts(text)
                    rel == {pos \in 1..Len(text) : OccursAt(text, sRelevant, pos)}
                IN  /\ starts # {} =>
                          LET first == CHOOSE p \in starts : \A q \in starts : p <= q
                          IN  \E k \in 1..Len(BuiltTypes) :
                                  /\ OccursAt(text, BuiltTypes[k], first)
                                  /\ parsed = SubSeq(text, first,
                                                     first + Len(BuiltTypes[k]) - 1)
                    /\ (Range(BuiltTypes) = {sRelevant, sNotRelevant} /\ rel # {}) =>
                          LET r == CHOOSE p \in rel : \A q \in rel : p <= q
                          IN  IF OccursAt(text, sNotRelevant, r - 4)
                              THEN /\ parsed = SubSeq(text, r - 4, r + 7)
                                   /\ FoldStr(parsed) # FoldStr(sRelevant)
                              ELSE parsed = SubSeq(text, r, r + 7)

\* C16 witness: with Relevant listed before Not Relevant, the generations
\* NOT RELEVANT and "Relevant, Not Relevant" were parsed: the first as NOT
\* RELEVANT, the second as Relevant
C16_Witness ==
    /\ BuiltTypes = <<sRelevant, sNotRelevant>>
    /\ \E i \in 1..Len(yielded) :
          /\ yielded[i].raw =
                <<UpStr(sNotRelevant), sRelevant \o <<",", " ">> \o sNotRelevant>>
          /\ yielded[i].parsed = <<UpStr(sNotRelevant), sRelevant>>

\* some record of the data lacks a required key
Malformed == \E i \in 1..Len(data) : ~Complete(data[i])

\* C17: in a run over data with a malformed record the pipeline is never
\* invoked and outputs stays empty; the AssertionError is raised while the
\* prompts are materialised, at the first malformed record, after the
\* prompts of the records before it were formatted; and such a run ends in
\* no other way.
C17_FailFast ==
    (script = "judge" /\ task_type \in SupportedTasks) =>
        /\ Malformed =>
              /\ pipeline_calls = 0
              /\ pipe_out = <<>> /\ yielded = <<>>
              /\ outputs = <<>>
              /\ pc # "done"
              /\ pc = "failed" => error = "AssertionError"
        /\ error = "AssertionError" =>
              /\ Malformed
              /\ pc = "failed"
              /\ ~Complete(data[Len(prompts) + 1])
              /\ \A i \in 1..Len(prompts) : Complete(data[i])
              /\ ~ENABLED Next

\* C17 witness: of two records the second lacks human_judgment; the run
\* failed after the first record's prompt was formatted
C17_Witness ==
    /\ task_type = "qa_pointwise"
    /\ error = "AssertionError"
    /\ Len(data) = 2 /\ Len(prompts) = 1
    /\ Complete(data[1])
    /\ "human_judgment" \notin DOMAIN data[2]
    /\ outputs = <<>> /\ pipeline_calls = 0

\* the hits whose _index index_source_fields does not list
UnknownHits == {i \in 1..Len(results) : results[i]._index \notin DOMAIN index_source_fields}

\* the hit would get its contribution: it has inner hits under the path of
\* the first configured field, or that field in its _source
Usable(hit) ==
    HasInnerHits(hit) \/ index_source_fields[hit._index][1] \in DOMAIN hit._source

\* C18: when a hit's _index is not a key of index_source_fields, no prompt is
\* returned and no completion request is made, nothing is printed, and
\* building the prompt ends the run with an error: the TypeError of that hit
\* when the hits before it are usable.
C18_UnknownIndexRaises ==
    (IsRag /\ UnknownHits # {}) =>
        /\ context_prompt = <<>>
        /\ completion_calls = 0 /\ sent_prompt = <<>>
        /\ printed = <<>>
        /\ pc \in {"searched", "failed"}
        /\ pc = "failed" =>
              LET u == CHOOSE i \in UnknownHits : \A j \in UnknownHits : i <= j
              IN  /\ error \in {"TypeError", "KeyError"}
                  /\ (\A j \in 1..(u - 1) : Usable(results[j])) => error = "TypeError"
                  /\ ~ENABLED Next

\* C18 witness: the second of two hits is of an index not listed; building
\* the prompt raised TypeError after the first hit was read
C18_Witness ==
    /\ IsRag /\ Len(results) = 2
    /\ UnknownHits = {2}
    /\ Usable(results[1])
    /\ error = "TypeError"
    /\ completion_calls = 0

====
